---------------------------- MODULE Spec2Model ----------------------------
(***************************************************************************)
(* depchk: a run of `check_npm` (src/src/main.rs) over a package.json,     *)
(* the per-dependency check of src/src/npm.rs and the batch check of       *)
(* src/src/lib.rs.                                                         *)
(*                                                                         *)
(* Texts.  A version-constraint text is kept as the list of its            *)
(* alternatives (separated by "||"), each a list of comparator terms       *)
(* [op, parts]; a version text is the list of its dotted numeric parts.    *)
(* Render / VersionText give the character string of a text, ParseRange /  *)
(* ParseVersion are the `str::parse` calls of npm.rs, RangeToString is     *)
(* `Range::to_string`.  The node_semver crate is not part of the           *)
(* repository; its behaviour is modelled as the crate documents it: a      *)
(* Range is a list of bound sets and is displayed from the bounds, the     *)
(* text it was parsed from is not kept.                                    *)
(***************************************************************************)
EXTENDS Integers, Sequences, FiniteSets, TLC

VARIABLES
    pc,             \* the place check_npm has reached
    include_dev,    \* the --dev flag of the run
    raw,            \* the manifest as decoded from the file (PackageJsonRaw)
    project,        \* the ProjectDependencies built from it
    phase,          \* the batch check_dependencies is working on: "deps" or "dev"
    inflight,       \* the positions of the batch whose registry request is awaited
    handlers,       \* `handlers` of check_dependencies: one result per finished check
    results,        \* the vector check_dependencies returns
    replies,        \* history: the registry's replies of each batch, by position
    outcomes,       \* history: `handlers` of each batch as it returned
    mismatches,     \* to_mismatches: the mismatches of the regular dependencies
    dev_mismatches, \* to_mismatches: Option of the mismatches of the dev ones
    err,            \* to_mismatches: the DependencyCheckErrors of the regular batch
    dev_err,        \* to_mismatches: the DependencyCheckErrors of the dev batch
    printed,        \* what the run has written to standard output
    result,         \* what check_npm has come to: pending, Ok, Err or a panic
    probe           \* a constraint text and a version text put to is_satisfied_by

vars == <<pc, include_dev, raw, project, phase, inflight, handlers, results, replies,
          outcomes, mismatches, dev_mismatches, err, dev_err, printed, result, probe>>

(* ------------------------------ bounds -------------------------------- *)

\* most entries of the "dependencies" map of a manifest
MaxDeps == 3

\* most entries of the "devDependencies" map of a manifest
MaxDevDeps == 1

(* ------------------------- versions and ranges ------------------------ *)

Ver(major, minor, patch, pre) ==
    [major |-> major, minor |-> minor, patch |-> patch, pre |-> pre]

Term(op, parts) == [op |-> op, parts |-> parts]

RECURSIVE JoinWith(_, _)
JoinWith(strs, sep) ==
    IF strs = <<>> THEN ""
    ELSE IF Len(strs) = 1 THEN strs[1]
    ELSE strs[1] \o sep \o JoinWith(Tail(strs), sep)

Dotted(parts) == JoinWith([i \in DOMAIN parts |-> ToString(parts[i])], ".")

\* the character string of a constraint text, as written in the manifest
Render(text) ==
    JoinWith([a \in DOMAIN text.alts |->
                 JoinWith([t \in DOMAIN text.alts[a] |->
                              text.alts[a][t].op \o Dotted(text.alts[a][t].parts)],
                          text.sep)],
             " || ")

\* the character string of a version text, as the registry sends it
VersionText(parts) == Dotted(parts)

\* <Version as Display>: major.minor.patch, then "-" and the pre-release tags
VersionToString(v) ==
    Dotted(<<v.major, v.minor, v.patch>>)
        \o (IF v.pre = <<>> THEN "" ELSE "-" \o Dotted(v.pre))

\* `version.parse::<Version>()`: three numeric components or an error
ParseVersion(parts) ==
    IF Len(parts) = 3 THEN [ok |-> TRUE, v |-> Ver(parts[1], parts[2], parts[3], <<>>)]
    ELSE [ok |-> FALSE]

\* the decimal digits of a component (components stay below 100)
Digits(n) == IF n < 10 THEN <<n>> ELSE <<n \div 10, n % 10>>

\* a component compared as a character string: "9" sorts after "10"
CmpNumAsText(a, b) ==
    LET da == Digits(a)
        db == Digits(b)
    IN  IF da = db THEN 0
        ELSE IF da[1] # db[1] THEN (IF da[1] < db[1] THEN -1 ELSE 1)
        ELSE IF Len(da) < Len(db) THEN -1
        ELSE IF Len(da) > Len(db) THEN 1
        ELSE IF da[2] < db[2] THEN -1 ELSE 1

\* a component compared as a number
CmpNum(a, b) == IF a < b THEN -1 ELSE IF a > b THEN 1 ELSE 0

RECURSIVE CmpPre(_, _)
CmpPre(p, q) ==
    IF p = <<>> /\ q = <<>> THEN 0
    ELSE IF p = <<>> THEN -1
    ELSE IF q = <<>> THEN 1
    ELSE IF CmpNum(p[1], q[1]) # 0 THEN CmpNum(p[1], q[1])
    ELSE CmpPre(Tail(p), Tail(q))

\* <Version as Ord>: major, minor, patch, then a release above its pre-releases
CmpVersion(v, w) ==
    IF CmpNum(v.major, w.major) # 0 THEN CmpNum(v.major, w.major)
    ELSE IF CmpNum(v.minor, w.minor) # 0 THEN CmpNum(v.minor, w.minor)
    ELSE IF CmpNum(v.patch, w.patch) # 0 THEN CmpNum(v.patch, w.patch)
    ELSE IF v.pre = <<>> /\ w.pre = <<>> THEN 0
    ELSE IF v.pre = <<>> THEN 1
    ELSE IF w.pre = <<>> THEN -1
    ELSE CmpPre(v.pre, w.pre)

Unbounded == [kind |-> "Unbounded"]
Including(v) == [kind |-> "Including", v |-> v]
Excluding(v) == [kind |-> "Excluding", v |-> v]
BoundSet(lower, upper) == [lower |-> lower, upper |-> upper]

SupportedOps == {"", "^", "~", ">=", ">", "<", "<="}

\* a partial version with its missing components read as 0
Filled(parts) ==
    Ver(parts[1],
        IF Len(parts) >= 2 THEN parts[2] ELSE 0,
        IF Len(parts) >= 3 THEN parts[3] ELSE 0,
        <<>>)

\* the first version above every version the partial version stands for
NextAbove(parts) ==
    IF Len(parts) = 1 THEN Ver(parts[1] + 1, 0, 0, <<0>>)
    ELSE Ver(parts[1], parts[2] + 1, 0, <<0>>)

\* the upper bound of ^parts: the leftmost non-zero component is bumped
CaretUpper(parts) ==
    LET f == Filled(parts)
    IN  IF f.major > 0 \/ Len(parts) = 1 THEN Ver(f.major + 1, 0, 0, <<0>>)
        ELSE IF f.minor > 0 \/ Len(parts) = 2 THEN Ver(0, f.minor + 1, 0, <<0>>)
        ELSE Ver(0, 0, f.patch + 1, <<0>>)

\* the bound set of one comparator term
TermBounds(t) ==
    LET p    == t.parts
        full == Len(p) = 3
        f    == Filled(p)
    IN  CASE t.op = ""   -> IF full THEN BoundSet(Including(f), Including(f))
                            ELSE BoundSet(Including(f), Excluding(NextAbove(p)))
          [] t.op = "^"  -> BoundSet(Including(f), Excluding(CaretUpper(p)))
          [] t.op = "~"  -> BoundSet(Including(f), Excluding(NextAbove(p)))
          [] t.op = ">=" -> BoundSet(Including(f), Unbounded)
          [] t.op = ">"  -> IF full THEN BoundSet(Excluding(f), Unbounded)
                            ELSE BoundSet(Including(
                                     [NextAbove(p) EXCEPT !.pre = <<>>]), Unbounded)
          [] t.op = "<"  -> IF full THEN BoundSet(Unbounded, Excluding(f))
                            ELSE BoundSet(Unbounded,
                                          Excluding([f EXCEPT !.pre = <<0>>]))
          [] t.op = "<=" -> IF full THEN BoundSet(Unbounded, Including(f))
                            ELSE BoundSet(Unbounded, Excluding(NextAbove(p)))

\* the higher of two lower bounds
MaxLower(a, b) ==
    IF a.kind = "Unbounded" THEN b
    ELSE IF b.kind = "Unbounded" THEN a
    ELSE IF CmpVersion(a.v, b.v) > 0 THEN a
    ELSE IF CmpVersion(a.v, b.v) < 0 THEN b
    ELSE IF a.kind = "Excluding" THEN a ELSE b

\* the lower of two upper bounds
MinUpper(a, b) ==
    IF a.kind = "Unbounded" THEN b
    ELSE IF b.kind = "Unbounded" THEN a
    ELSE IF CmpVersion(a.v, b.v) < 0 THEN a
    ELSE IF CmpVersion(a.v, b.v) > 0 THEN b
    ELSE IF a.kind = "Excluding" THEN a ELSE b

RECURSIVE Intersect(_)
\* the bound set of the comparators of one alternative, all of which must hold
Intersect(terms) ==
    IF Len(terms) = 1 THEN TermBounds(terms[1])
    ELSE LET a == TermBounds(terms[1])
             b == Intersect(Tail(terms))
         IN  BoundSet(MaxLower(a.lower, b.lower), MinUpper(a.upper, b.upper))

\* a bound set that no version lies in
IsEmptySet(bs) ==
    /\ bs.lower.kind # "Unbounded"
    /\ bs.upper.kind # "Unbounded"
    /\ \/ CmpVersion(bs.lower.v, bs.upper.v) > 0
       \/ /\ CmpVersion(bs.lower.v, bs.upper.v) = 0
          /\ "Excluding" \in {bs.lower.kind, bs.upper.kind}

\* `text.parse::<Range>()`: the bound sets of the alternatives, or an error
ParseRange(text) ==
    IF \/ text.sep # " "
       \/ \E a \in DOMAIN text.alts :
            \E t \in DOMAIN text.alts[a] : text.alts[a][t].op \notin SupportedOps
    THEN [ok |-> FALSE]
    ELSE LET sets == SelectSeq([a \in DOMAIN text.alts |-> Intersect(text.alts[a])],
                               LAMBDA bs : ~IsEmptySet(bs))
         IN  IF sets = <<>> THEN [ok |-> FALSE] ELSE [ok |-> TRUE, range |-> sets]

\* <BoundSet as Display>
BoundSetToString(bs) ==
    LET lo == bs.lower
        up == bs.upper
        los == IF lo.kind = "Including" THEN ">=" \o VersionToString(lo.v)
               ELSE ">" \o VersionToString(lo.v)
        ups == IF up.kind = "Including" THEN "<=" \o VersionToString(up.v)
               ELSE "<" \o VersionToString(up.v)
    IN  IF lo.kind = "Unbounded" /\ up.kind = "Unbounded" THEN "*"
        ELSE IF lo.kind = "Unbounded" THEN ups
        ELSE IF up.kind = "Unbounded" THEN los
        ELSE IF lo.kind = "Including" /\ up.kind = "Including" /\ lo.v = up.v
             THEN VersionToString(lo.v)
        ELSE los \o " " \o ups

\* <Range as Display>: the bound sets, joined by "||"
RangeToString(range) ==
    JoinWith([i \in DOMAIN range |-> BoundSetToString(range[i])], "||")

\* v lies between the bounds of bs
WithinBounds(bs, v) ==
    /\ CASE bs.lower.kind = "Unbounded" -> TRUE
         [] bs.lower.kind = "Including" -> CmpVersion(v, bs.lower.v) >= 0
         [] bs.lower.kind = "Excluding" -> CmpVersion(v, bs.lower.v) > 0
    /\ CASE bs.upper.kind = "Unbounded" -> TRUE
         [] bs.upper.kind = "Including" -> CmpVersion(v, bs.upper.v) <= 0
         [] bs.upper.kind = "Excluding" -> CmpVersion(v, bs.upper.v) < 0

\* a pre-release is matched only by a bound on its own major.minor.patch
\* that carries a pre-release tag itself
PreAllowed(bs, v) ==
    \/ v.pre = <<>>
    \/ \E b \in {bs.lower, bs.upper} :
          /\ b.kind # "Unbounded"
          /\ b.v.pre # <<>>
          /\ <<b.v.major, b.v.minor, b.v.patch>> = <<v.major, v.minor, v.patch>>

\* Range::satisfies
Satisfies(range, v) ==
    \E i \in DOMAIN range : WithinBounds(range[i], v) /\ PreAllowed(range[i], v)

(* ------------------------------ the texts ----------------------------- *)

PinText    == [sep |-> " ", alts |-> << <<Term("", <<0, 12, 0>>)>> >>]
CaretText  == [sep |-> " ", alts |-> << <<Term("^", <<0, 12>>)>> >>]
TildeText  == [sep |-> " ", alts |-> << <<Term("~", <<0, 12, 1>>)>> >>]
FloorText  == [sep |-> " ", alts |-> << <<Term(">=", <<0, 11>>)>> >>]
UnionText  == [sep |-> " ", alts |-> << <<Term("", <<0, 9>>)>>,
                                        <<Term(">=", <<0, 11>>), Term("<", <<0, 13>>)>> >>]
\* ">=0.10,!=0.11,<0.13", the unparsable text of the try_new doc test
BadText    == [sep |-> ",", alts |-> << <<Term(">=", <<0, 10>>), Term("!=", <<0, 11>>),
                                          Term("<", <<0, 13>>)>> >>]

\* the constraint texts a manifest of the model may hold
ManifestTexts == {CaretText, BadText}

\* the version texts a registry reply of a run may hold ("0.13" is no version)
RegistryVersions == {<<0, 12, 5>>, <<0, 13, 0>>, <<0, 13>>}

\* the constraint texts and the version texts put to one dependency on its own
ProbeTexts == {PinText, CaretText, TildeText, FloorText, UnionText, BadText}
ProbeVersions ==
    {<<0, 9, 0>>, <<0, 10, 0>>, <<0, 11, 0>>, <<0, 12, 0>>, <<0, 12, 1>>,
     <<0, 12, 5>>, <<0, 13, 0>>, <<0, 13>>}

\* what one registry lookup can come to: send() fails, json() fails, or a body
RepliesWith(versions) ==
    {[kind |-> "TransportError"], [kind |-> "DecodeError"]}
        \cup {[kind |-> "Body", version |-> p] : p \in versions}

Replies == RepliesWith(RegistryVersions)

OutputTypes == {"Table", "Json", "Yaml", "Csv"}

\* the key of the i-th entry of a map: "pkg1", "pkg2", ... and "devpkg1", ...
PkgName(prefix, i) == prefix \o ToString(i)

\* the entries of one map of the manifest, in the order the map iterates them
EntryLists(max, prefix) ==
    UNION {{[i \in 1..n |-> [name |-> PkgName(prefix, i), text |-> f[i]]] :
               f \in [1..n -> ManifestTexts]} : n \in 0..max}

\* PackageJsonRaw: what serde_json decodes from the manifest file
Manifests ==
    {[dependencies |-> d, dev_dependencies |-> e] :
        d \in EntryLists(MaxDeps, "pkg"), e \in EntryLists(MaxDevDeps, "devpkg")}

(* --------------------------- npm.rs: NpmDependency --------------------- *)

\* NpmDependency::try_new: None when the text is no range
try_new(name, text) ==
    IF ~ParseRange(text).ok THEN [some |-> FALSE]
    ELSE [some |-> TRUE,
          dep |-> [name |-> name, version |-> ParseRange(text).range,
                   api_url |-> "https://registry.npmjs.org/" \o name \o "/latest"]]

\* NpmDependency::from_map: `new` on every entry; `new` unwraps try_new, so
\* one unparsable entry panics and no vector is returned
from_map(entries) ==
    IF \E i \in DOMAIN entries : ~try_new(entries[i].name, entries[i].text).some
    THEN [panic |-> TRUE]
    ELSE [panic |-> FALSE,
          deps |-> [i \in DOMAIN entries |->
                       try_new(entries[i].name, entries[i].text).dep]]

\* NpmDependency::is_satisfied_by: the version text is parsed and unwrapped
is_satisfied_by(dep, vtext) ==
    IF ~ParseVersion(vtext).ok THEN [panic |-> TRUE]
    ELSE [panic |-> FALSE, holds |-> Satisfies(dep.version, ParseVersion(vtext).v)]

\* a VersionMismatch with the constraint and version fields exchanged
MismatchSwapped(dep, vtext) ==
    [name |-> dep.name, constraint |-> VersionText(vtext),
     version |-> RangeToString(dep.version)]

\* the VersionMismatch check_version builds
MismatchOf(dep, vtext) ==
    [name |-> dep.name, constraint |-> RangeToString(dep.version),
     version |-> VersionText(vtext)]

ErrorOf(kind, dep) == [kind |-> kind, url |-> dep.api_url]

\* <Box<dyn Error> as Display> of a lookup error
Message(e) == e.kind \o " for url (" \o e.url \o ")"

\* NpmDependency::check_version, from the reply of the registry on
check_version(dep, reply) ==
    IF reply.kind = "TransportError" THEN
        [panic |-> FALSE, res |-> [tag |-> "Err", error |-> ErrorOf("TransportError", dep)]]
    ELSE IF reply.kind = "DecodeError" THEN
        [panic |-> FALSE, res |-> [tag |-> "Err", error |-> ErrorOf("DecodeError", dep)]]
    ELSE IF is_satisfied_by(dep, reply.version).panic THEN [panic |-> TRUE]
    ELSE IF is_satisfied_by(dep, reply.version).holds THEN
        [panic |-> FALSE, res |-> [tag |-> "OkNone"]]
    ELSE [panic |-> FALSE,
          res |-> [tag |-> "OkSome", mismatch |-> MismatchOf(dep, reply.version)]]

(* ------------------------ lib.rs: check_dependencies ------------------- *)

\* the second loop with the error results dropped as well
FilterHandlersOkOnly(hs) ==
    LET kept == SelectSeq(hs, LAMBDA h : h.tag = "OkSome")
    IN  [i \in DOMAIN kept |-> [tag |-> "Ok", mismatch |-> kept[i].mismatch]]

\* the second loop of check_dependencies: Err and Ok(Some) are kept, unwrapped
FilterHandlers(hs) ==
    LET kept == SelectSeq(hs, LAMBDA h : h.tag = "Err" \/ h.tag = "OkSome")
    IN  [i \in DOMAIN kept |->
            IF kept[i].tag = "Err" THEN kept[i]
            ELSE [tag |-> "Ok", mismatch |-> kept[i].mismatch]]

(* ------------------------------- main.rs ------------------------------- *)

\* DependencyCheckErrors::new
NewErrors(errs) ==
    [errors |-> errs,
     msg |-> JoinWith([i \in DOMAIN errs |-> Message(errs[i])], "\n")]

\* DependencyCheckErrors::default
DefaultErrors == [errors |-> <<>>, msg |-> ""]

\* DependencyCheckErrors::join: the lists are appended, msg is left as it is
JoinErrors(self, other) == [self EXCEPT !.errors = self.errors \o other.errors]

\* handle_dependency_result: the Ok and the Err results, each in order
handle_dependency_result(rs) ==
    LET oks  == SelectSeq(rs, LAMBDA r : r.tag = "Ok")
        errs == SelectSeq(rs, LAMBDA r : r.tag = "Err")
    IN  [mismatches |-> [i \in DOMAIN oks |-> oks[i].mismatch],
         errs |-> NewErrors([i \in DOMAIN errs |-> errs[i].error])]

\* the Mismatches value to_mismatches returns
Mismatches == [dependencies |-> mismatches, dev_dependencies |-> dev_mismatches]

\* the run fails when the message is non-empty, not when the list is
RunResultByMsg(e) ==
    IF e.msg # "" THEN [tag |-> "Err", kind |-> "checks", msg |-> e.msg]
    ELSE [tag |-> "Ok"]

\* the last lines of check_npm: Err(err) when the error list is non-empty
RunResult(e) ==
    IF e.errors # <<>> THEN [tag |-> "Err", kind |-> "checks", msg |-> e.msg]
    ELSE [tag |-> "Ok"]

\* the error is returned with the mismatches not printed yet
ReturnReadyEarly == pc \in {"joined", "printed"}

\* check_npm reaches its error test only after the match that prints
ReturnReady == pc = "printed"

(* ------------------------------- the run ------------------------------- *)

\* the dependencies of the batch check_dependencies is working on
Batch == IF phase = "deps" THEN project.dependencies ELSE project.dev_dependencies

Pending == [tag |-> "Pending"]
NoProbe == [asked |-> FALSE]

InitRun ==
    /\ pc = "start"
    /\ include_dev \in BOOLEAN
    /\ raw = [read |-> FALSE]
    /\ project = [dependencies |-> <<>>, dev_dependencies |-> <<>>]
    /\ phase = "deps"
    /\ inflight = {}
    /\ handlers = <<>>
    /\ results = <<>>
    /\ replies = [deps |-> <<>>, dev |-> <<>>]
    /\ outcomes = [deps |-> <<>>, dev |-> <<>>]
    /\ mismatches = <<>>
    /\ dev_mismatches = [some |-> FALSE]
    /\ err = DefaultErrors
    /\ dev_err = DefaultErrors
    /\ printed = [done |-> FALSE]
    /\ result = Pending

Init == InitRun /\ probe = NoProbe

\* check_npm, first line: PackageJson::parse_file fails to read or to decode
\* the file and `?` returns the error
ParseFileFails ==
    /\ pc = "start"
    /\ \E kind \in {"io", "json"} :
          result' = [tag |-> "Err", kind |-> kind, msg |-> kind \o " error"]
    /\ pc' = "returned"
    /\ UNCHANGED <<include_dev, raw, project, phase, inflight, handlers, results,
                   replies, outcomes, mismatches, dev_mismatches, err, dev_err,
                   printed, probe>>

\* check_npm, first line: parse_file decodes the manifest and From<PackageJsonRaw>
\* builds both vectors with from_map
ParseFile ==
    /\ pc = "start"
    /\ \E m \in Manifests :
          LET deps == from_map(m.dependencies)
              devs == from_map(m.dev_dependencies)
          IN  /\ raw' = [read |-> TRUE, dependencies |-> m.dependencies,
                         dev_dependencies |-> m.dev_dependencies]
              /\ IF deps.panic \/ devs.panic
                 THEN /\ pc' = "panicked"
                      /\ result' = [tag |-> "Panic", at |-> "NpmDependency::new"]
                      /\ UNCHANGED project
                 ELSE /\ pc' = "parsed"
                      /\ project' = [dependencies |-> deps.deps,
                                     dev_dependencies |-> devs.deps]
                      /\ UNCHANGED result
    /\ UNCHANGED <<include_dev, phase, inflight, handlers, results, replies, outcomes,
                   mismatches, dev_mismatches, err, dev_err, printed, probe>>

\* to_mismatches, first line: Client::builder().build()?, then the call of
\* check_dependencies on the regular dependencies
BuildClient ==
    /\ pc = "parsed"
    /\ \E built \in BOOLEAN :
          IF built
          THEN pc' = "checking" /\ UNCHANGED result
          ELSE /\ pc' = "returned"
               /\ result' = [tag |-> "Err", kind |-> "client", msg |-> "client error"]
    /\ phase' = "deps"
    /\ handlers' = <<>>
    /\ UNCHANGED <<include_dev, raw, project, inflight, results, replies, outcomes,
                   mismatches, dev_mismatches, err, dev_err, printed, probe>>

\* check_dependencies, first loop: check_version of the dependency at position i
\* is called and sends its request; the loop awaits it before it goes on
SendRequest(i) ==
    /\ pc = "checking"
    /\ i \in DOMAIN Batch
    /\ i = Len(handlers) + 1
    /\ inflight = {}
    /\ inflight' = {i}
    /\ UNCHANGED <<pc, include_dev, raw, project, phase, handlers, results, replies,
                   outcomes, mismatches, dev_mismatches, err, dev_err, printed,
                   result, probe>>

\* check_dependencies, first loop: the awaited check_version of position i comes
\* back and its result is pushed onto `handlers`
ReceiveResponse(i) ==
    /\ pc = "checking"
    /\ i \in inflight
    /\ \E reply \in Replies :
          LET checked == check_version(Batch[i], reply)
          IN  /\ replies' = [replies EXCEPT ![phase] = Append(@, reply)]
              /\ IF checked.panic
                 THEN /\ pc' = "panicked"
                      /\ result' = [tag |-> "Panic", at |-> "is_satisfied_by"]
                      /\ UNCHANGED <<handlers, inflight>>
                 ELSE /\ handlers' = Append(handlers, checked.res)
                      /\ inflight' = inflight \ {i}
                      /\ UNCHANGED <<pc, result>>
    /\ UNCHANGED <<include_dev, raw, project, phase, results, outcomes, mismatches,
                   dev_mismatches, err, dev_err, printed, probe>>

\* check_dependencies, second loop and return
CollectResults ==
    /\ pc = "checking"
    /\ inflight = {}
    /\ Len(handlers) = Len(Batch)
    /\ results' = FilterHandlers(handlers)
    /\ outcomes' = [outcomes EXCEPT ![phase] = handlers]
    /\ pc' = "collected"
    /\ UNCHANGED <<include_dev, raw, project, phase, inflight, handlers, replies,
                   mismatches, dev_mismatches, err, dev_err, printed, result, probe>>

\* to_mismatches: handle_dependency_result on the regular batch, then the dev
\* batch is started, or skipped with None and the default error value
HandleDependencies ==
    /\ pc = "collected"
    /\ phase = "deps"
    /\ mismatches' = handle_dependency_result(results).mismatches
    /\ err' = handle_dependency_result(results).errs
    /\ IF include_dev
       THEN /\ phase' = "dev"
            /\ handlers' = <<>>
            /\ pc' = "checking"
            /\ UNCHANGED <<dev_mismatches, dev_err>>
       ELSE /\ dev_mismatches' = [some |-> FALSE]
            /\ dev_err' = DefaultErrors
            /\ pc' = "handled"
            /\ UNCHANGED <<phase, handlers>>
    /\ UNCHANGED <<include_dev, raw, project, inflight, results, replies, outcomes,
                   printed, result, probe>>

\* to_mismatches: handle_dependency_result on the dev batch
HandleDevDependencies ==
    /\ pc = "collected"
    /\ phase = "dev"
    /\ dev_mismatches' = [some |-> TRUE,
                          list |-> handle_dependency_result(results).mismatches]
    /\ dev_err' = handle_dependency_result(results).errs
    /\ pc' = "handled"
    /\ UNCHANGED <<include_dev, raw, project, phase, inflight, handlers, results,
                   replies, outcomes, mismatches, err, printed, result, probe>>

\* to_mismatches, last lines: err.join(dev_err) and the return to check_npm
Join ==
    /\ pc = "handled"
    /\ err' = JoinErrors(err, dev_err)
    /\ pc' = "joined"
    /\ UNCHANGED <<include_dev, raw, project, phase, inflight, handlers, results,
                   replies, outcomes, mismatches, dev_mismatches, dev_err, printed,
                   result, probe>>

\* check_npm: the match on output_type; every arm writes the Mismatches value
PrintMismatches ==
    /\ pc = "joined"
    /\ \E output_type \in OutputTypes :
          printed' = [done |-> TRUE, format |-> output_type, report |-> Mismatches]
    /\ pc' = "printed"
    /\ UNCHANGED <<include_dev, raw, project, phase, inflight, handlers, results,
                   replies, outcomes, mismatches, dev_mismatches, err, dev_err,
                   result, probe>>

\* check_npm, last lines: the test of err.errors and the return
Return ==
    /\ ReturnReady
    /\ result' = RunResult(err)
    /\ pc' = "returned"
    /\ UNCHANGED <<include_dev, raw, project, phase, inflight, handlers, results,
                   replies, outcomes, mismatches, dev_mismatches, err, dev_err,
                   printed, probe>>

Next ==
    \/ ParseFileFails
    \/ ParseFile
    \/ BuildClient
    \/ \E i \in 1..(MaxDeps + MaxDevDeps) : SendRequest(i)
    \/ \E i \in 1..(MaxDeps + MaxDevDeps) : ReceiveResponse(i)
    \/ CollectResults
    \/ HandleDependencies
    \/ HandleDevDependencies
    \/ Join
    \/ PrintMismatches
    \/ Return

Spec == Init /\ [][Next]_vars

(* ------------------- one dependency checked on its own ----------------- *)

InitProbe ==
    /\ InitRun
    /\ include_dev = FALSE
    /\ probe \in {[asked |-> TRUE, stage |-> "given", text |-> t, reply |-> r] :
                     t \in ProbeTexts, r \in RepliesWith(ProbeVersions)}

\* NpmDependency::try_new("axios", text)
ProbeTryNew ==
    /\ probe.asked
    /\ probe.stage = "given"
    /\ probe' = [asked |-> TRUE, stage |-> "made", text |-> probe.text,
                 reply |-> probe.reply, made |-> try_new("axios", probe.text)]
    /\ UNCHANGED <<pc, include_dev, raw, project, phase, inflight, handlers, results,
                   replies, outcomes, mismatches, dev_mismatches, err, dev_err,
                   printed, result>>

\* dependency.is_satisfied_by(version) on the version text of the reply
ProbeIsSatisfiedBy ==
    /\ probe.asked
    /\ probe.stage = "made"
    /\ probe.made.some
    /\ probe.reply.kind = "Body"
    /\ probe' = [asked |-> TRUE, stage |-> "answered", text |-> probe.text,
                 reply |-> probe.reply, made |-> probe.made,
                 answer |-> is_satisfied_by(probe.made.dep, probe.reply.version)]
    /\ UNCHANGED <<pc, include_dev, raw, project, phase, inflight, handlers, results,
                   replies, outcomes, mismatches, dev_mismatches, err, dev_err,
                   printed, result>>

\* dependency.check_version(client), the registry answering with the reply
ProbeCheckVersion ==
    /\ probe.asked
    /\ probe.stage = "made"
    /\ probe.made.some
    /\ probe' = [asked |-> TRUE, stage |-> "checked", text |-> probe.text,
                 reply |-> probe.reply, made |-> probe.made,
                 checked |-> check_version(probe.made.dep, probe.reply)]
    /\ UNCHANGED <<pc, include_dev, raw, project, phase, inflight, handlers, results,
                   replies, outcomes, mismatches, dev_mismatches, err, dev_err,
                   printed, result>>

NextProbe == ProbeTryNew \/ ProbeIsSatisfiedBy \/ ProbeCheckVersion

SpecProbe == InitProbe /\ [][NextProbe]_vars

(* ------------------------- what the claims speak of -------------------- *)

\* the positions of hs whose outcome is a mismatch or an error
KeptPositions(hs) == {i \in DOMAIN hs : hs[i].tag # "OkNone"}

\* the k-th smallest member of a set of positions
KthOf(S, k) == CHOOSE i \in S : Cardinality({j \in S : j <= i}) = k

\* the entry of the returned vector that stands for the outcome h
EntryFor(h) ==
    IF h.tag = "Err" THEN [tag |-> "Err", error |-> h.error]
    ELSE [tag |-> "Ok", mismatch |-> h.mismatch]

RECURSIVE ErrorsIn(_)
\* the errors among the outcomes hs, in order
ErrorsIn(hs) ==
    IF hs = <<>> THEN <<>>
    ELSE (IF Head(hs).tag = "Err" THEN <<Head(hs).error>> ELSE <<>>)
             \o ErrorsIn(Tail(hs))

RECURSIVE MismatchesIn(_)
\* the mismatches among the outcomes hs, in order
MismatchesIn(hs) ==
    IF hs = <<>> THEN <<>>
    ELSE (IF Head(hs).tag = "OkSome" THEN <<Head(hs).mismatch>> ELSE <<>>)
             \o MismatchesIn(Tail(hs))

\* the combined error list of the run: regular errors, then dev errors
CombinedErrors == ErrorsIn(outcomes.deps) \o ErrorsIn(outcomes.dev)

\* check_npm has the value to_mismatches returned
Aggregated == pc \in {"joined", "printed"} \/ (pc = "returned" /\ printed.done)

\* a registry body whose version field is no semantic version
InvalidBody(reply) == reply.kind = "Body" /\ Len(reply.version) # 3

\* a release as one number; the components of the model stay below 100
Key(major, minor, patch) == major * 10000 + minor * 100 + patch

LowKey(p) ==
    Key(p[1], IF Len(p) >= 2 THEN p[2] ELSE 0, IF Len(p) >= 3 THEN p[3] ELSE 0)

\* the first key above the versions a (partial) version stands for
HighKey(p) ==
    IF Len(p) = 1 THEN Key(p[1] + 1, 0, 0)
    ELSE IF Len(p) = 2 THEN Key(p[1], p[2] + 1, 0)
    ELSE LowKey(p) + 1

\* npm range semantics of one comparator, on releases
DenotesTerm(t, k) ==
    LET p == t.parts
    IN  CASE t.op = ""   -> LowKey(p) <= k /\ k < HighKey(p)
          [] t.op = "^"  -> /\ LowKey(p) <= k
                            /\ k < (IF p[1] > 0 \/ Len(p) = 1 THEN Key(p[1] + 1, 0, 0)
                                    ELSE IF p[2] > 0 \/ Len(p) = 2
                                         THEN Key(0, p[2] + 1, 0)
                                    ELSE LowKey(p) + 1)
          [] t.op = "~"  -> /\ LowKey(p) <= k
                            /\ k < (IF Len(p) = 1 THEN Key(p[1] + 1, 0, 0)
                                    ELSE Key(p[1], p[2] + 1, 0))
          [] t.op = ">=" -> k >= LowKey(p)
          [] t.op = ">"  -> k >= HighKey(p)
          [] t.op = "<"  -> k < LowKey(p)
          [] t.op = "<=" -> k < HighKey(p)

\* the release vparts lies in the set the constraint text denotes: it meets every
\* comparator of at least one alternative
Denotes(text, vparts) ==
    \E a \in DOMAIN text.alts :
        \A t \in DOMAIN text.alts[a] :
            DenotesTerm(text.alts[a][t], Key(vparts[1], vparts[2], vparts[3]))

\* the assertions of the tests of npm.rs and the cases the specification names
SatisfiedCases ==
    {<<"0.12.0", "0.12.0", TRUE>>, <<"0.12.0", "0.12.1", FALSE>>,
     <<"^0.12", "0.12.0", TRUE>>, <<"^0.12", "0.12.1", TRUE>>,
     <<"^0.12", "0.12.5", TRUE>>, <<"^0.12", "0.13.0", FALSE>>,
     <<"0.9 || >=0.11 <0.13", "0.9.0", TRUE>>,
     <<"0.9 || >=0.11 <0.13", "0.10.0", FALSE>>,
     <<"0.9 || >=0.11 <0.13", "0.11.0", TRUE>>,
     <<"0.9 || >=0.11 <0.13", "0.12.0", TRUE>>,
     <<"0.9 || >=0.11 <0.13", "0.13.0", FALSE>>}

\* the serialized form of the range each text of the model parses to
Serialized(text) ==
    CASE Render(text) = "0.12.0"  -> "0.12.0"
      [] Render(text) = "^0.12"   -> ">=0.12.0 <0.13.0-0"
      [] Render(text) = "~0.12.1" -> ">=0.12.1 <0.13.0-0"
      [] Render(text) = ">=0.11"  -> ">=0.11.0"
      [] Render(text) = "0.9 || >=0.11 <0.13"
                                  -> ">=0.9.0 <0.10.0-0||>=0.11.0 <0.13.0-0"

(* ------------------------ properties of the loop ---------------------- *)

\* the first loop awaits each check before it calls the next: at most one
\* request is pending, and it is the one of the position after `handlers`
OneRequestAtATime ==
    /\ Cardinality(inflight) <= 1
    /\ \A i \in inflight : i = Len(handlers) + 1

\* an error result of check_version never ends the batch: the only panic of
\* the first loop is the unwrap of is_satisfied_by
OnlyInvalidVersionAborts ==
    [][pc = "checking" /\ pc' = "panicked"
        => /\ result'.at = "is_satisfied_by"
           /\ InvalidBody(replies'[phase][Len(replies'[phase])])]_vars

(* ------------------------------- the claims ---------------------------- *)

\* C1, as stated: check_dependencies returns one outcome per input dependency,
\* the outcome at position i being that of the dependency at position i; no
\* outcome, a NoMismatch included, is dropped.
C1_OneOutcomePerDependency ==
    pc = "collected" =>
        /\ Len(results) = Len(Batch)
        /\ \A i \in DOMAIN results :
              handlers[i].tag # "OkNone" /\ results[i] = EntryFor(handlers[i])

\* C1, amended: when check_dependencies returns, its vector holds one entry for
\* each dependency whose outcome is a mismatch or an error, in input order, and
\* none for a dependency without mismatch.
C1_MismatchesAndErrorsInOrder ==
    pc = "collected" =>
        /\ Len(handlers) = Len(Batch)
        /\ Len(results) = Cardinality(KeptPositions(handlers))
        /\ \A k \in DOMAIN results :
              results[k] = EntryFor(handlers[KthOf(KeptPositions(handlers), k)])

C1_Witness ==
    /\ pc = "collected"
    /\ Len(handlers) = 3
    /\ handlers[1].tag = "OkSome"
    /\ handlers[2].tag = "OkNone"
    /\ handlers[3].tag = "Err"

\* C2: when the check of one dependency of a batch fails with a transport
\* error, the batch does not fail: every other dependency is still checked, its
\* mismatch is in the result, and each failed check is one error entry.
C2_TransportFailureIsolated ==
    (\E i \in DOMAIN handlers :
        handlers[i].tag = "Err" /\ handlers[i].error.kind = "TransportError")
    => /\ pc # "panicked"
       /\ pc = "collected" =>
            /\ Len(handlers) = Len(Batch)
            /\ MismatchesIn(handlers) = MismatchesIn(
                   [i \in DOMAIN results |->
                       IF results[i].tag = "Ok"
                       THEN [tag |-> "OkSome", mismatch |-> results[i].mismatch]
                       ELSE results[i]])
            /\ ErrorsIn(handlers) = ErrorsIn(results)

\* C3, as stated: check_npm returns a failure if and only if the combined error
\* list of the dependency checks is non-empty.
C3_FailsIffErrors ==
    pc = "returned" => (result.tag = "Err" <=> CombinedErrors # <<>>)

\* C3, amended: a run of check_npm that has loaded the manifest and built the
\* client returns a failure if and only if the combined error list is non-empty,
\* however many mismatches were found.
C3_FailsIffErrorsOnceChecked ==
    (pc = "returned" /\ printed.done) =>
        /\ result.tag = "Err" <=> CombinedErrors # <<>>
        /\ result.tag = "Ok" <=> CombinedErrors = <<>>

C3_Witness ==
    /\ pc = "returned"
    /\ result.tag = "Ok"
    /\ Len(mismatches) >= 1
    /\ dev_mismatches.some
    /\ CombinedErrors = <<>>

\* C4: after DependencyCheckErrors::join the message of the combined error is
\* the messages of all its errors, regular ones first, joined by newlines.
C4_JoinedMessage ==
    Aggregated =>
        /\ err.errors = CombinedErrors
        /\ err.msg = JoinWith([i \in DOMAIN err.errors |-> Message(err.errors[i])],
                              "\n")

\* C5, as stated: a version outside the constraint gives a Mismatch with the
\* name, the constraint text as given at construction and the fetched version
\* text; a version inside it gives NoMismatch.
C5_MismatchCarriesOriginalText ==
    (probe.asked /\ probe.stage = "checked" /\ probe.reply.kind = "Body"
        /\ ~InvalidBody(probe.reply))
    => /\ ~probe.checked.panic
       /\ IF Denotes(probe.text, probe.reply.version)
          THEN probe.checked.res = [tag |-> "OkNone"]
          ELSE probe.checked.res =
                   [tag |-> "OkSome",
                    mismatch |-> [name |-> "axios",
                                  constraint |-> Render(probe.text),
                                  version |-> VersionText(probe.reply.version)]]

\* C5, amended: the Mismatch carries the name, the parsed range written back as
\* text (comparator bounds: "^0.12" becomes ">=0.12.0 <0.13.0-0") and the
\* fetched version text; a version inside the constraint gives NoMismatch.
C5_MismatchCarriesSerializedRange ==
    (probe.asked /\ probe.stage = "checked" /\ probe.reply.kind = "Body"
        /\ ~InvalidBody(probe.reply))
    => /\ ~probe.checked.panic
       /\ IF Denotes(probe.text, probe.reply.version)
          THEN probe.checked.res = [tag |-> "OkNone"]
          ELSE probe.checked.res =
                   [tag |-> "OkSome",
                    mismatch |-> [name |-> "axios",
                                  constraint |-> Serialized(probe.text),
                                  version |-> VersionText(probe.reply.version)]]

C5_Witness ==
    /\ probe.asked
    /\ probe.stage = "checked"
    /\ Render(probe.text) = "^0.12"
    /\ probe.reply.kind = "Body"
    /\ VersionText(probe.reply.version) = "0.13.0"
    /\ ~probe.checked.panic
    /\ probe.checked.res.tag = "OkSome"

\* C6: a registry body whose version is no semantic version gives an error
\* outcome for that dependency; the check does not abort or panic.
C6_InvalidVersionIsErrorOutcome ==
    \A i \in DOMAIN replies[phase] :
        InvalidBody(replies[phase][i]) =>
            /\ pc # "panicked"
            /\ i \in DOMAIN handlers
            /\ handlers[i].tag = "Err"

\* C7: the start of a dependency's check never waits for another check to
\* complete: while a lookup is pending, every check not yet started can start.
C7_StartNotBlockedByPending ==
    \A i \in DOMAIN Batch :
        (pc = "checking" /\ inflight # {} /\ i \notin inflight /\ i > Len(handlers))
            => ENABLED SendRequest(i)

\* C8: in a run that reaches the output step, the mismatches, regular and (when
\* requested) development, are written out before the combined error is
\* returned as the failure of the run, also when the error list is non-empty.
C8_MismatchesPrintedBeforeError ==
    [][(result.tag = "Pending" /\ result'.tag = "Err" /\ result'.kind = "checks")
        => /\ printed.done
           /\ printed.report.dependencies = MismatchesIn(outcomes.deps)
           /\ printed.report.dev_dependencies =
                  (IF include_dev
                   THEN [some |-> TRUE, list |-> MismatchesIn(outcomes.dev)]
                   ELSE [some |-> FALSE])]_vars

C8_Witness ==
    /\ pc = "returned"
    /\ result.tag = "Err"
    /\ result.kind = "checks"
    /\ printed.done
    /\ Len(printed.report.dependencies) >= 1
    /\ printed.report.dev_dependencies.some
    /\ CombinedErrors # <<>>

\* C9: is_satisfied_by(v) is true exactly when v lies in the set the constraint
\* denotes under npm range semantics, components compared as numbers; so for
\* the pin, the caret and the union of the tests.
C9_SatisfiedIffInRange ==
    (probe.asked /\ probe.stage = "answered" /\ ~probe.answer.panic) =>
        /\ probe.answer.holds = Denotes(probe.text, probe.reply.version)
        /\ \A c \in SatisfiedCases :
              (Render(probe.text) = c[1] /\ VersionText(probe.reply.version) = c[2])
                  => probe.answer.holds = c[3]

C9_Witness ==
    /\ probe.asked
    /\ probe.stage = "answered"
    /\ Render(probe.text) = "0.9 || >=0.11 <0.13"
    /\ VersionText(probe.reply.version) = "0.9.0"
    /\ ~probe.answer.panic
    /\ probe.answer.holds

\* C10: loading a manifest through from_map completes for every map: an entry
\* whose text is no range is left out, every other entry gives one dependency.
C10_LoadSkipsUnparsable ==
    raw.read =>
        /\ pc # "panicked" \/ result.at # "NpmDependency::new"
        /\ pc # "panicked" =>
              /\ Len(project.dependencies) =
                     Cardinality({i \in DOMAIN raw.dependencies :
                                     ParseRange(raw.dependencies[i].text).ok})
              /\ Len(project.dev_dependencies) =
                     Cardinality({i \in DOMAIN raw.dev_dependencies :
                                     ParseRange(raw.dev_dependencies[i].text).ok})

=============================================================================
